---- MODULE Spec2Model ----
(***************************************************************************)
(* Technical indicators of src/technical_indicators.py as pure functions   *)
(* over a price table, with the pandas primitives they rest on             *)
(* (column selection, rolling windows with min_periods, ewm with           *)
(* adjust=True, elementwise float arithmetic with NaN and inf) written     *)
(* out.  Floats are modelled as exact rationals extended with NaN, +inf    *)
(* and -inf; rounding error is outside the model.  Positions are 1-based   *)
(* here: position p is the source's index i = p - 1.                       *)
(***************************************************************************)
EXTENDS Integers, Sequences, FiniteSets, TLC

VARIABLES df, call, result

vars == <<df, call, result>>

(* ------------------------------ bounds --------------------------------- *)

\* longest price series and largest price of the rolling-window runs
MaxLen == 4
MaxPrice == 3
\* largest window / span / lookback handed to an indicator
MaxN == 3
\* longest series and largest periods of the stochastic-oscillator runs
StochLen == 3
StochNK == 2
StochND == 2
\* longest table and largest price of the Bollinger-band runs
BBLen == 2
BBPrice == 2
\* longest series and largest span of the MACD runs
MacdLen == 4
MacdN == 2

(* ------------------------- float values -------------------------------- *)
\* A value is <<num, den>>: den > 0 a finite rational in lowest terms,
\* <<0,0>> NaN, <<1,0>> +inf, <<-1,0>> -inf (sign of the numerator).

NaN == <<0, 0>>
PosInf == <<1, 0>>

Abs(a) == IF a < 0 THEN -a ELSE a
Sign(a) == IF a > 0 THEN 1 ELSE IF a < 0 THEN -1 ELSE 0
Max2(a, b) == IF a >= b THEN a ELSE b

RECURSIVE Gcd(_, _)
Gcd(a, b) == IF b = 0 THEN a ELSE Gcd(b, a % b)

Norm(n, d) ==
  IF d = 0 THEN <<Sign(n), 0>>
  ELSE LET g == Gcd(Abs(n), Abs(d))
       IN  <<Sign(d) * (n \div g), Sign(d) * (d \div g)>>

Num(k) == <<k, 1>>
IsNaN(v) == v = NaN
IsFinite(v) == v[2] > 0

FNeg(a) == <<-a[1], a[2]>>
FAdd(a, b) ==
  IF IsNaN(a) \/ IsNaN(b) THEN NaN
  ELSE IF a[2] = 0 /\ b[2] = 0 THEN (IF a[1] = b[1] THEN a ELSE NaN)
  ELSE IF a[2] = 0 THEN a
  ELSE IF b[2] = 0 THEN b
  ELSE LET g == Gcd(a[2], b[2])
       IN  Norm(a[1] * (b[2] \div g) + b[1] * (a[2] \div g), (a[2] \div g) * b[2])
FSub(a, b) == FAdd(a, FNeg(b))
FMul(a, b) ==
  IF IsNaN(a) \/ IsNaN(b) THEN NaN
  ELSE LET g1 == Gcd(Abs(a[1]), b[2])
           g2 == Gcd(Abs(b[1]), a[2])
           h1 == IF g1 = 0 THEN 1 ELSE g1
           h2 == IF g2 = 0 THEN 1 ELSE g2
       IN  Norm((a[1] \div h1) * (b[1] \div h2), (a[2] \div h2) * (b[2] \div h1))
Recip(b) ==
  IF b[1] > 0 THEN <<b[2], b[1]>>
  ELSE IF b[1] < 0 THEN <<-b[2], -b[1]>>
  ELSE IF b[2] = 0 THEN NaN ELSE PosInf
FDiv(a, b) ==
  IF IsNaN(a) \/ IsNaN(b) THEN NaN
  ELSE IF b = Num(0) THEN <<Sign(a[1]), 0>>
  ELSE FMul(a, Recip(b))
\* comparisons are false as soon as a NaN is involved
FLeq(a, b) ==
  /\ ~IsNaN(a) /\ ~IsNaN(b)
  /\ IF a[2] = 0 /\ b[2] = 0 THEN a[1] <= b[1]
     ELSE LET g == Gcd(a[2], b[2])
              h == IF g = 0 THEN 1 ELSE g
          IN  a[1] * (b[2] \div h) <= b[1] * (a[2] \div h)
FLt(a, b) == FLeq(a, b) /\ a # b

\* a series computed position by position, held as a sequence of values
AsSeries(f) == SubSeq(f, 1, Len(f))

(* ------------------------ call outcomes -------------------------------- *)
\* A call either returns a value or raises; `out` is <<>> when it raised.

Return(v) == [status |-> "ok", exc |-> "", msg |-> "", out |-> v]
Raise(e, m) == [status |-> "error", exc |-> e, msg |-> m, out |-> <<>>]
NotCalled == [status |-> "none", exc |-> "", msg |-> "", out |-> <<>>]

\* df[prices]: a missing column is a KeyError
HasColumn(d, prices) == prices \in DOMAIN d

(* ---------------------- pandas rolling windows ------------------------- *)
\* Series.rolling(window=n, min_periods=minp): the window at position p is
\* the last n positions ending at p (shorter near the start, empty for n = 0);
\* an aggregate is NaN unless the window holds at least minp non-NaN values.

RollingRejects(n, minp) == minp < 0 \/ n < 0 \/ minp > n
RollingError == Raise("ValueError", "window must be an integer 0 or greater")

Window(s, p, n) == SubSeq(s, Max2(1, p - n + 1), p)
Obs(w) == SelectSeq(w, LAMBDA v : ~IsNaN(v))

RECURSIVE SumSeq(_)
SumSeq(w) == IF w = <<>> THEN Num(0) ELSE FAdd(w[1], SumSeq(Tail(w)))

RECURSIVE MaxSeq(_)
MaxSeq(w) ==
  IF Len(w) = 1 THEN w[1]
  ELSE LET r == MaxSeq(Tail(w)) IN IF FLeq(r, w[1]) THEN w[1] ELSE r

RECURSIVE MinSeq(_)
MinSeq(w) ==
  IF Len(w) = 1 THEN w[1]
  ELSE LET r == MinSeq(Tail(w)) IN IF FLeq(w[1], r) THEN w[1] ELSE r

Mean(o) == FDiv(SumSeq(o), Num(Len(o)))

RollMean(s, n, minp) ==
  AsSeries([p \in 1..Len(s) |->
     LET o == Obs(Window(s, p, n))
     IN  IF Len(o) >= minp /\ Len(o) > 0 THEN Mean(o) ELSE NaN])

RollMax(s, n, minp) ==
  AsSeries([p \in 1..Len(s) |->
     LET o == Obs(Window(s, p, n))
     IN  IF Len(o) >= minp /\ Len(o) > 0 THEN MaxSeq(o) ELSE NaN])

RollMin(s, n, minp) ==
  AsSeries([p \in 1..Len(s) |->
     LET o == Obs(Window(s, p, n))
     IN  IF Len(o) >= minp /\ Len(o) > 0 THEN MinSeq(o) ELSE NaN])

(* --------------------- simple moving average --------------------------- *)

\* variant: min_periods left at 1, so short leading windows are averaged too
sma_partial_windows(d, n, prices) ==
  IF ~HasColumn(d, prices) THEN Raise("KeyError", prices)
  ELSE IF RollingRejects(n, n) THEN RollingError
  ELSE Return(RollMean(d[prices], n, 1))

simple_moving_average(d, n, prices) ==
  IF ~HasColumn(d, prices) THEN Raise("KeyError", prices)
  ELSE IF RollingRejects(n, n) THEN RollingError
  ELSE Return(RollMean(d[prices], n, n))

(* -------------------- weighted moving average -------------------------- *)

Reverse(w) == AsSeries([k \in 1..Len(w) |-> w[Len(w) + 1 - k]])
Cumsum(w) == AsSeries([k \in 1..Len(w) |-> SumSeq(SubSeq(w, 1, k))])

\* variant: the window is not reversed, so the oldest observation weighs most
WmaWindowUnreversed(w, n) ==
  FDiv(FDiv(FMul(SumSeq(Cumsum(w)), Num(2)), Num(n)), Num(n + 1))

\* lambda x: x[::-1].cumsum().sum() * 2 / n / (n + 1)
WmaWindow(w, n) ==
  FDiv(FDiv(FMul(SumSeq(Cumsum(Reverse(w))), Num(2)), Num(n)), Num(n + 1))

\* rolling(...).apply(lambda x: ...): the lambda (WmaWindow, closed over k) sees
\* the whole window once it holds minp values
RollApply(s, n, minp, k) ==
  AsSeries([p \in 1..Len(s) |->
     LET w == Window(s, p, n)
     IN  IF Len(Obs(w)) >= minp THEN WmaWindow(w, k) ELSE NaN])

weighted_moving_average(d, n, prices) ==
  IF ~HasColumn(d, prices) THEN Raise("KeyError", prices)
  ELSE IF RollingRejects(n, n) THEN RollingError
  ELSE Return(RollApply(d[prices], n, n, n))

(* --------------------------- pandas ewm -------------------------------- *)
\* Series.ewm(alpha, min_periods, adjust, ignore_na=False).mean() as the
\* single pass pandas makes: `weighted` is the running average, `old_wt` the
\* weight it carries, `nobs` the number of non-NaN values seen so far.

EwmFirst(v) ==
  [weighted |-> v, old_wt |-> Num(1), nobs |-> IF IsNaN(v) THEN 0 ELSE 1]

EwmStep(st, cur, alpha, adjust) ==
  LET old_wt_factor == FSub(Num(1), alpha)
      new_wt == IF adjust THEN Num(1) ELSE alpha
      is_observation == ~IsNaN(cur)
      nobs == st.nobs + (IF is_observation THEN 1 ELSE 0)
      decayed == FMul(st.old_wt, old_wt_factor)
  IN  IF ~IsNaN(st.weighted)
      THEN [weighted |->
              IF is_observation /\ st.weighted # cur
              THEN FDiv(FAdd(FMul(decayed, st.weighted), FMul(new_wt, cur)),
                        FAdd(decayed, new_wt))
              ELSE st.weighted,
            old_wt |->
              IF ~is_observation THEN decayed
              ELSE IF adjust THEN FAdd(decayed, new_wt) ELSE Num(1),
            nobs |-> nobs]
      ELSE [weighted |-> IF is_observation THEN cur ELSE st.weighted,
            old_wt |-> st.old_wt,
            nobs |-> nobs]

\* the states after each of the first p values, in order
RECURSIVE EwmStates(_, _, _, _)
EwmStates(vals, alpha, adjust, p) ==
  IF p = 0 THEN <<>>
  ELSE IF p = 1 THEN <<EwmFirst(vals[1])>>
  ELSE LET prev == EwmStates(vals, alpha, adjust, p - 1)
       IN  Append(prev, EwmStep(prev[p - 1], vals[p], alpha, adjust))

EwmMean(vals, alpha, minp, adjust) ==
  LET states == EwmStates(vals, alpha, adjust, Len(vals))
  IN  AsSeries([p \in 1..Len(vals) |->
         IF states[p].nobs >= Max2(minp, 1) THEN states[p].weighted ELSE NaN])

SpanError == Raise("ValueError", "span must satisfy: span >= 1")
ComError == Raise("ValueError", "comass must satisfy: comass >= 0")
AlphaOfSpan(n) == FDiv(Num(2), Num(n + 1))
AlphaOfCom(c) == FDiv(Num(1), Num(1 + c))

(* ------------------- exponential moving average ------------------------ *)

\* variant: ewm(span=n, min_periods=n, adjust=False)
ema_unadjusted(d, n, prices) ==
  IF ~HasColumn(d, prices) THEN Raise("KeyError", prices)
  ELSE IF n < 1 THEN SpanError
  ELSE Return(EwmMean(d[prices], AlphaOfSpan(n), n, FALSE))

exponential_moving_average(d, n, prices) ==
  IF ~HasColumn(d, prices) THEN Raise("KeyError", prices)
  ELSE IF n < 1 THEN SpanError
  ELSE Return(EwmMean(d[prices], AlphaOfSpan(n), n, TRUE))

(* --------------------- relative strength index ------------------------- *)

Diff(s) == AsSeries([p \in 1..Len(s) |-> IF p = 1 THEN NaN ELSE FSub(s[p], s[p - 1])])
ClipLower0(s) ==
  AsSeries([p \in 1..Len(s) |-> IF ~IsNaN(s[p]) /\ FLt(s[p], Num(0)) THEN Num(0) ELSE s[p]])
NegSeries(s) == AsSeries([p \in 1..Len(s) |-> FNeg(s[p])])
DivSeries(a, b) == AsSeries([p \in 1..Len(a) |-> FDiv(a[p], b[p])])
SubSeries(a, b) == AsSeries([p \in 1..Len(a) |-> FSub(a[p], b[p])])

RsiOfRs(rs) ==
  AsSeries([p \in 1..Len(rs) |-> FSub(Num(100), FDiv(Num(100), FAdd(Num(1), rs[p])))])

\* variant: gains and losses taken the wrong way round
rsi_swapped(d, n, prices) ==
  IF ~HasColumn(d, prices) THEN Raise("KeyError", prices)
  ELSE IF n - 1 < 0 THEN ComError
  ELSE LET deltas == Diff(d[prices])
           ups == ClipLower0(NegSeries(deltas))
           downs == ClipLower0(deltas)
           rs == DivSeries(EwmMean(ups, AlphaOfCom(n - 1), n, TRUE),
                           EwmMean(downs, AlphaOfCom(n - 1), n, TRUE))
       IN  Return(RsiOfRs(rs))

relative_strength_index(d, n, prices) ==
  IF ~HasColumn(d, prices) THEN Raise("KeyError", prices)
  ELSE IF n - 1 < 0 THEN ComError
  ELSE LET deltas == Diff(d[prices])
           ups == ClipLower0(deltas)
           downs == ClipLower0(NegSeries(deltas))
           rs == DivSeries(EwmMean(ups, AlphaOfCom(n - 1), n, TRUE),
                           EwmMean(downs, AlphaOfCom(n - 1), n, TRUE))
       IN  Return(RsiOfRs(rs))

(* -------------------------------- MACD --------------------------------- *)

\* variant: the signal line is smoothed without min_periods
macd_signal_without_min_periods(d, n_fast, n_slow, n_signal) ==
  LET ema_fast == exponential_moving_average(d, n_fast, "Close")
      ema_slow == exponential_moving_average(d, n_slow, "Close")
  IN  IF ema_fast.status = "error" THEN ema_fast
      ELSE IF ema_slow.status = "error" THEN ema_slow
      ELSE IF n_signal < 1 THEN SpanError
      ELSE LET macd == SubSeries(ema_fast.out, ema_slow.out)
               macd_signal == EwmMean(macd, AlphaOfSpan(n_signal), 0, TRUE)
               macd_difference == SubSeries(macd, macd_signal)
           IN  Return(<<macd, macd_signal, macd_difference>>)

moving_average_convergence_divergence(d, n_fast, n_slow, n_signal) ==
  LET ema_fast == exponential_moving_average(d, n_fast, "Close")
      ema_slow == exponential_moving_average(d, n_slow, "Close")
  IN  IF ema_fast.status = "error" THEN ema_fast
      ELSE IF ema_slow.status = "error" THEN ema_slow
      ELSE IF n_signal < 1 THEN SpanError
      ELSE LET macd == SubSeries(ema_fast.out, ema_slow.out)
               macd_signal == EwmMean(macd, AlphaOfSpan(n_signal), n_signal, TRUE)
               macd_difference == SubSeries(macd, macd_signal)
           IN  Return(<<macd, macd_signal, macd_difference>>)

(* ----------------------- stochastic oscillator ------------------------ *)

OnlyMessage == "Only SMA, WMA and EMA are available."

\* variant: the position is measured from the highest high
PercentKFromHigh(x, highest_high, lowest_low) ==
  AsSeries([p \in 1..Len(x) |->
     FMul(FDiv(FSub(x[p], highest_high[p]), FSub(highest_high[p], lowest_low[p])),
          Num(100))])

\* ((df[prices] - lowest_low) / (highest_high - lowest_low)) * 100
PercentK(x, highest_high, lowest_low) ==
  AsSeries([p \in 1..Len(x) |->
     FMul(FDiv(FSub(x[p], lowest_low[p]), FSub(highest_high[p], lowest_low[p])),
          Num(100))])

\* pd.DataFrame(series): one column, named after the series, i.e. `prices`
FrameOf(name, s) == [col \in {name} |-> s]

\* the %D calls pass no `prices`, so the moving averages read their default 'Close'
StochasticD(stochastic_k, n_d, d_type) ==
  IF d_type = "sma" THEN simple_moving_average(stochastic_k, n_d, "Close")
  ELSE IF d_type = "wma" THEN weighted_moving_average(stochastic_k, n_d, "Close")
  ELSE IF d_type = "ema" THEN exponential_moving_average(stochastic_k, n_d, "Close")
  ELSE Raise("ValueError", OnlyMessage)

stochastic_oscillator(d, n_k, n_d, prices, d_type) ==
  IF ~HasColumn(d, prices) THEN Raise("KeyError", prices)
  ELSE IF RollingRejects(n_k, n_k) THEN RollingError
  ELSE LET highest_high == RollMax(d[prices], n_k, n_k)
           lowest_low == RollMin(d[prices], n_k, n_k)
           stochastic_k == FrameOf(prices, PercentK(d[prices], highest_high, lowest_low))
           stochastic_d == StochasticD(stochastic_k, n_d, d_type)
       IN  IF stochastic_d.status = "error" THEN stochastic_d
           ELSE Return(<<stochastic_k, stochastic_d.out>>)

(* --------------------------- Bollinger bands --------------------------- *)
\* A standard deviation is a square root, so band values are kept exactly as
\* <<a, b, v>>, meaning a + b * sqrt(v) with a, b, v rational and v >= 0
\* (b = 0 and v = 0 when there is no irrational part); SNaN is NaN.

SNaN == <<NaN, NaN, NaN>>
SIsNaN(x) == x = SNaN
Surd(a, b, v) ==
  IF IsNaN(a) \/ IsNaN(b) \/ IsNaN(v) THEN SNaN
  ELSE IF b = Num(0) \/ v = Num(0) THEN <<a, Num(0), Num(0)>>
  ELSE <<a, b, v>>
SOfNum(a) == Surd(a, Num(0), Num(0))
SSqrt(v) == Surd(Num(0), Num(1), v)
\* m * x for a rational m
SScale(m, x) == IF SIsNaN(x) THEN SNaN ELSE Surd(FMul(m, x[1]), FMul(m, x[2]), x[3])
\* x + y, for operands whose irrational parts share the radicand
SAdd(x, y) ==
  IF SIsNaN(x) \/ SIsNaN(y) THEN SNaN
  ELSE Surd(FAdd(x[1], y[1]), FAdd(x[2], y[2]), IF x[2] = Num(0) THEN y[3] ELSE x[3])
SSub(x, y) == SAdd(x, SScale(Num(-1), y))
\* x <= y: (x.b - y.b) * sqrt(v) <= y.a - x.a, decided by signs and squares
SLeq(x, y) ==
  /\ ~SIsNaN(x) /\ ~SIsNaN(y)
  /\ LET c == FSub(x[2], y[2])
         e == FSub(y[1], x[1])
         v == IF x[2] = Num(0) THEN y[3] ELSE x[3]
         c2v == FMul(FMul(c, c), v)
         e2 == FMul(e, e)
     IN  IF c = Num(0) \/ v = Num(0) THEN FLeq(Num(0), e)
         ELSE IF FLt(Num(0), c) THEN FLeq(Num(0), e) /\ FLeq(c2v, e2)
         ELSE FLeq(Num(0), e) \/ FLeq(e2, c2v)

\* sum of squared deviations from the mean
RECURSIVE SumSqDev(_, _)
SumSqDev(o, mu) ==
  IF o = <<>> THEN Num(0)
  ELSE FAdd(FMul(FSub(o[1], mu), FSub(o[1], mu)), SumSqDev(Tail(o), mu))

\* rolling(...).std(): sample standard deviation (ddof = 1)
RollStd(s, n, minp) ==
  AsSeries([p \in 1..Len(s) |->
     LET o == Obs(Window(s, p, n))
     IN  IF Len(o) >= minp /\ Len(o) > 1
         THEN SSqrt(FDiv(SumSqDev(o, Mean(o)), Num(Len(o) - 1)))
         ELSE SNaN])

TypicalPrice(d) ==
  AsSeries([p \in 1..Len(d["Close"]) |->
     FDiv(FAdd(FAdd(d["High"][p], d["Low"][p]), d["Close"][p]), Num(3))])

\* df['High'], df['Low'], df['Close'] are read in this order
MissingBar(d) ==
  IF ~HasColumn(d, "High") THEN "High"
  ELSE IF ~HasColumn(d, "Low") THEN "Low"
  ELSE IF ~HasColumn(d, "Close") THEN "Close"
  ELSE ""

\* sma + m * sigma
UpperBand(sma, m, sigma) ==
  AsSeries([p \in 1..Len(sma) |-> SAdd(SOfNum(sma[p]), SScale(m, sigma[p]))])
\* sma - m * sigma
LowerBand(sma, m, sigma) ==
  AsSeries([p \in 1..Len(sma) |-> SSub(SOfNum(sma[p]), SScale(m, sigma[p]))])

\* variant: the pair is returned as (upper, lower)
bollinger_bands_upper_first(d, n, m) ==
  IF MissingBar(d) # "" THEN Raise("KeyError", MissingBar(d))
  ELSE IF RollingRejects(n, n) THEN RollingError
  ELSE LET typical_price == TypicalPrice(d)
           sma == RollMean(typical_price, n, n)
           sigma == RollStd(typical_price, n, n)
       IN  Return(<<UpperBand(sma, m, sigma), LowerBand(sma, m, sigma)>>)

bollinger_bands(d, n, m) ==
  IF MissingBar(d) # "" THEN Raise("KeyError", MissingBar(d))
  ELSE IF RollingRejects(n, n) THEN RollingError
  ELSE LET typical_price == TypicalPrice(d)
           sma == RollMean(typical_price, n, n)
           sigma == RollStd(typical_price, n, n)
           upper_bollinger_band == UpperBand(sma, m, sigma)
           lower_bollinger_band == LowerBand(sma, m, sigma)
       IN  Return(<<lower_bollinger_band, upper_bollinger_band>>)

(* ------------------------- tables -------------------------------------- *)

RECURSIVE SeqsUpTo(_, _)
SeqsUpTo(S, k) ==
  IF k = 0 THEN {<<>>}
  ELSE LET shorter == SeqsUpTo(S, k - 1)
       IN  shorter \cup {Append(s, x) : s \in {t \in shorter : Len(t) = k - 1}, x \in S}

PriceValues == {Num(v) : v \in 1..MaxPrice}
PriceSeries == SeqsUpTo(PriceValues, MaxLen) \ {<<>>}
\* the prices 1, 2, ..., 10 of the documented scenario
ScenarioSeries == [p \in 1..10 |-> Num(p)]

Table1(c, s) == [col \in {c} |-> s]

NoCall == [fn |-> "none", n |-> 0, n2 |-> 0, n3 |-> 0, m |-> 0, prices |-> "", d_type |-> ""]

(* ---------------- rolling-window indicators: SMA, WMA ------------------ *)

InitRoll ==
  /\ df \in {Table1("Close", s) : s \in PriceSeries \cup {ScenarioSeries}}
  /\ call = NoCall
  /\ result = NotCalled

CallSMA ==
  /\ result.status = "none"
  /\ \E n \in -1..MaxN :
       /\ call' = [NoCall EXCEPT !.fn = "simple_moving_average", !.n = n, !.prices = "Close"]
       /\ result' = simple_moving_average(df, n, "Close")
  /\ UNCHANGED df

CallWMA ==
  /\ result.status = "none"
  /\ \E n \in -1..MaxN :
       /\ call' = [NoCall EXCEPT !.fn = "weighted_moving_average", !.n = n, !.prices = "Close"]
       /\ result' = weighted_moving_average(df, n, "Close")
  /\ UNCHANGED df

NextRoll == CallSMA \/ CallWMA

SpecRoll == InitRoll /\ [][NextRoll]_vars

(* ------------------------ claims on SMA / WMA -------------------------- *)

Series == df["Close"]
Called(f) == call.fn = f /\ result.status # "none"
Returned(f) == call.fn = f /\ result.status = "ok"

RECURSIVE RefSum(_, _, _)
RefSum(s, lo, hi) == IF lo > hi THEN Num(0) ELSE FAdd(RefSum(s, lo, hi - 1), s[hi])

\* C2: SMA with window n >= 1 on a series of length L returns L values;
\* positions i < n-1 are undefined and every later one is the arithmetic mean
\* of the n observations ending there; on 1..10 with n = 3, index 2 is 2,
\* index 9 is 9 and indices 0 and 1 are undefined.
C2_SmaIsWindowMean ==
  (Returned("simple_moving_average") /\ call.n >= 1) =>
    /\ Len(result.out) = Len(Series)
    /\ \A p \in 1..Len(Series) :
         IF p < call.n THEN IsNaN(result.out[p])
         ELSE /\ IsFinite(result.out[p])
              /\ FMul(result.out[p], Num(call.n)) = RefSum(Series, p - call.n + 1, p)
    /\ (Series = ScenarioSeries /\ call.n = 3) =>
         /\ result.out[3] = Num(2) /\ result.out[10] = Num(9)
         /\ IsNaN(result.out[1]) /\ IsNaN(result.out[2])
C2_Witness ==
  /\ Returned("simple_moving_average") /\ call.n = 3
  /\ Series = ScenarioSeries
  /\ result.out[3] = Num(2) /\ result.out[10] = Num(9) /\ IsNaN(result.out[2])

\* C4: SMA called with a window n <= 0 signals a configuration error for
\* every input series instead of returning a series.
C4_NonPositiveWindowRaises ==
  (Called("simple_moving_average") /\ call.n <= 0) => result.status = "error"

\* linear weights: n on the most recent observation down to 1 on the oldest
RECURSIVE RefLinear(_, _, _, _)
RefLinear(s, p, n, k) ==
  IF k >= n THEN Num(0)
  ELSE FAdd(FMul(Num(n - k), s[p - k]), RefLinear(s, p, n, k + 1))

\* C8: for n >= 1 the reversed-cumulative-sum expression of WMA equals
\* (sum over k = 0..n-1 of (n-k) * x[i-k]) / (n(n+1)/2); positions i < n-1
\* are undefined.
C8_WmaIsLinearWeights ==
  (Returned("weighted_moving_average") /\ call.n >= 1) =>
    /\ Len(result.out) = Len(Series)
    /\ \A p \in 1..Len(Series) :
         IF p < call.n THEN IsNaN(result.out[p])
         ELSE result.out[p] =
                FDiv(RefLinear(Series, p, call.n, 0), Num((call.n * (call.n + 1)) \div 2))
C8_Witness ==
  /\ Returned("weighted_moving_average") /\ call.n = 3
  /\ Series = <<Num(1), Num(1), Num(3)>>
  /\ result.out[3] = <<2, 1>>

(* ------------- exponentially weighted indicators: EMA, RSI, MACD ------- *)

InitEwm ==
  /\ df \in {Table1("Close", s) : s \in PriceSeries}
  /\ call = NoCall
  /\ result = NotCalled

CallEMA ==
  /\ result.status = "none"
  /\ \E n \in 0..MaxN :
       /\ call' = [NoCall EXCEPT !.fn = "exponential_moving_average", !.n = n, !.prices = "Close"]
       /\ result' = exponential_moving_average(df, n, "Close")
  /\ UNCHANGED df

CallRSI ==
  /\ result.status = "none"
  /\ \E n \in 0..MaxN :
       /\ call' = [NoCall EXCEPT !.fn = "relative_strength_index", !.n = n, !.prices = "Close"]
       /\ result' = relative_strength_index(df, n, "Close")
  /\ UNCHANGED df

CallMACD ==
  /\ result.status = "none"
  /\ \E n_fast \in 1..MacdN, n_slow \in 1..MacdN, n_signal \in 0..MacdN :
       /\ call' = [NoCall EXCEPT !.fn = "moving_average_convergence_divergence",
                                 !.n = n_fast, !.n2 = n_slow, !.n3 = n_signal]
       /\ result' = moving_average_convergence_divergence(df, n_fast, n_slow, n_signal)
  /\ UNCHANGED df

NextEwm == CallEMA \/ CallRSI

SpecEwm == InitEwm /\ [][NextEwm]_vars

InitMacd ==
  /\ df \in {Table1("Close", s) : s \in SeqsUpTo(PriceValues, MacdLen) \ {<<>>}}
  /\ call = NoCall
  /\ result = NotCalled

NextMacd == CallMACD

SpecMacd == InitMacd /\ [][NextMacd]_vars

(* --------------------- claims on RSI, EMA, MACD ------------------------ *)

StrictlyIncreasing(s) == \A p \in 2..Len(s) : FLt(s[p - 1], s[p])
StrictlyDecreasing(s) == \A p \in 2..Len(s) : FLt(s[p], s[p - 1])

\* C7: for every lookback n >= 1, RSI of a strictly increasing series is
\* exactly 100 at every defined position and no error is raised; RSI of a
\* strictly decreasing series is exactly 0 at every defined position.
C7_RsiSaturatesOnMonotoneSeries ==
  (Called("relative_strength_index") /\ call.n >= 1) =>
    /\ StrictlyIncreasing(Series) =>
         /\ result.status = "ok"
         /\ \A p \in 1..Len(Series) :
              IsNaN(result.out[p]) \/ result.out[p] = Num(100)
    /\ StrictlyDecreasing(Series) =>
         /\ result.status = "ok"
         /\ \A p \in 1..Len(Series) :
              IsNaN(result.out[p]) \/ result.out[p] = Num(0)
C7_Witness ==
  /\ Returned("relative_strength_index") /\ call.n = 2
  /\ Series = <<Num(1), Num(2), Num(3)>>
  /\ result.out[3] = Num(100)

RECURSIVE Pow(_, _)
Pow(r, k) == IF k = 0 THEN Num(1) ELSE FMul(r, Pow(r, k - 1))
\* 1 + r + ... + r^k
RECURSIVE GeoSum(_, _)
GeoSum(r, k) == IF k = 0 THEN Num(1) ELSE FAdd(Pow(r, k), GeoSum(r, k - 1))
\* sum over k = 0..p-1 of r^k * s[p-k]
RECURSIVE DecayedSum(_, _, _, _)
DecayedSum(s, r, p, k) ==
  IF k >= p THEN Num(0)
  ELSE FAdd(FMul(Pow(r, k), s[p - k]), DecayedSum(s, r, p, k + 1))

EmaReturned == Returned("exponential_moving_average") /\ call.n >= 1

\* C9 as stated: the output of EMA satisfies EMA_i = alpha*x_i +
\* (1-alpha)*EMA_(i-1) with the fixed alpha = 2/(n+1) wherever the
\* predecessor is defined, and is undefined at every position i < n-1.
C9_FixedAlphaRecursion ==
  EmaReturned =>
    LET alpha == AlphaOfSpan(call.n)
    IN  \A p \in 1..Len(Series) :
          /\ p < call.n => IsNaN(result.out[p])
          /\ (p > 1 /\ ~IsNaN(result.out[p - 1])) =>
               result.out[p] = FAdd(FMul(alpha, Series[p]),
                                    FMul(FSub(Num(1), alpha), result.out[p - 1]))

\* C9 amended: at every position i >= n-1 the output is the adjusted
\* weighted mean (sum_k (1-alpha)^k x_(i-k)) / (sum_k (1-alpha)^k), k = 0..i,
\* so the recursion holds with the position-dependent decay
\* a_i = 1 / sum_(k=0..i) (1-alpha)^k in place of alpha; positions i < n-1
\* are undefined.
C9_AdjustedWeightsRecursion ==
  EmaReturned =>
    LET alpha == AlphaOfSpan(call.n)
        r == FSub(Num(1), alpha)
    IN  \A p \in 1..Len(Series) :
          /\ p < call.n => IsNaN(result.out[p])
          /\ p >= call.n =>
               result.out[p] = FDiv(DecayedSum(Series, r, p, 0), GeoSum(r, p - 1))
          /\ (p > 1 /\ ~IsNaN(result.out[p - 1])) =>
               LET a == FDiv(Num(1), GeoSum(r, p - 1))
               IN  result.out[p] = FAdd(FMul(a, Series[p]),
                                        FMul(FSub(Num(1), a), result.out[p - 1]))
C9_Witness ==
  /\ Returned("exponential_moving_average") /\ call.n = 2
  /\ Series = <<Num(1), Num(2), Num(1)>>
  /\ result.out[2] = <<7, 4>>
  /\ result.out[3] = <<16, 13>>

Defined(v) == ~IsNaN(v)

\* C10: for MACD with 1 <= n_fast <= n_slow and n_signal >= 1 on a series
\* without missing values, macd_i is defined exactly when i >= n_slow-1,
\* macd_signal_i and macd_difference_i exactly when i >= n_slow+n_signal-2,
\* and there macd_difference_i = macd_i - macd_signal_i.
C10_MacdDefinedness ==
  (Called("moving_average_convergence_divergence") /\ call.n <= call.n2 /\ call.n3 >= 1) =>
    /\ result.status = "ok"
    /\ LET macd == result.out[1]
           macd_signal == result.out[2]
           macd_difference == result.out[3]
       IN  \A p \in 1..Len(Series) :
             /\ Defined(macd[p]) <=> p >= call.n2
             /\ Defined(macd_signal[p]) <=> p >= call.n2 + call.n3 - 1
             /\ Defined(macd_difference[p]) <=> p >= call.n2 + call.n3 - 1
             /\ p >= call.n2 + call.n3 - 1 =>
                  /\ IsFinite(macd_difference[p])
                  /\ FAdd(macd_difference[p], macd_signal[p]) = macd[p]
C10_Witness ==
  /\ Returned("moving_average_convergence_divergence")
  /\ call.n = 1 /\ call.n2 = 2 /\ call.n3 = 2
  /\ Len(Series) = 4
  /\ Defined(result.out[1][2]) /\ ~Defined(result.out[2][2])
  /\ Defined(result.out[3][3]) /\ result.out[3][3] # Num(0)

(* ----------------------- stochastic oscillator runs -------------------- *)

ColumnNames == {"Close", "High"}
SmoothingNames == {"sma", "wma", "ema", "foo"}

InitStoch ==
  /\ df \in {Table1(c, s) : c \in ColumnNames,
                            s \in SeqsUpTo(PriceValues, StochLen) \ {<<>>}}
  /\ call = NoCall
  /\ result = NotCalled

CallStochastic ==
  /\ result.status = "none"
  /\ \E n_k \in -1..StochNK, n_d \in 0..StochND, prices \in ColumnNames,
        d_type \in SmoothingNames :
       /\ call' = [NoCall EXCEPT !.fn = "stochastic_oscillator", !.n = n_k, !.n2 = n_d,
                                 !.prices = prices, !.d_type = d_type]
       /\ result' = stochastic_oscillator(df, n_k, n_d, prices, d_type)
  /\ UNCHANGED df

NextStoch == CallStochastic

SpecStoch == InitStoch /\ [][NextStoch]_vars

(* -------------------- claims on the stochastic oscillator -------------- *)

\* the selected moving average of a bare %K series over n_d periods
SelectedAverage(k, n_d, d_type) ==
  IF d_type = "sma" THEN RollMean(k, n_d, n_d)
  ELSE IF d_type = "wma" THEN RollApply(k, n_d, n_d, n_d)
  ELSE EwmMean(k, AlphaOfSpan(n_d), n_d, TRUE)

\* C1: for any table that contains the column named by `prices` (whatever it
\* is called), any n_k >= 1, n_d >= 1 and d_type in {sma, wma, ema},
\* stochastic_oscillator completes without error and returns (%K, %D) with
\* %K computed from that column and %D the selected average of %K over n_d.
C1_AnyColumnReturnsKAndD ==
  (/\ Called("stochastic_oscillator")
   /\ HasColumn(df, call.prices)
   /\ call.n >= 1 /\ call.n2 >= 1
   /\ call.d_type \in {"sma", "wma", "ema"}) =>
    /\ result.status = "ok"
    /\ LET x == df[call.prices]
           k == PercentK(x, RollMax(x, call.n, call.n), RollMin(x, call.n, call.n))
       IN  /\ result.out[1] = FrameOf(call.prices, k)
           /\ result.out[2] = SelectedAverage(k, call.n2, call.d_type)

\* C3: with any d_type other than 'sma', 'wma', 'ema' the call ends in an
\* invalid-configuration error whose message names SMA, WMA and EMA and
\* returns no (%K, %D), for every input table and every n_k, n_d.
C3_UnknownSmoothingNamesTheOptions ==
  (Called("stochastic_oscillator") /\ call.d_type \notin {"sma", "wma", "ema"}) =>
    /\ result.status = "error"
    /\ result.exc = "ValueError"
    /\ result.msg = OnlyMessage
    /\ result.out = <<>>

\* C6: for every series and n_k >= 1, at every position i >= n_k-1 where the
\* maximum and minimum of the trailing n_k-window differ, the returned %K
\* satisfies 0 <= %K_i <= 100.
C6_PercentKWithinRange ==
  (Returned("stochastic_oscillator") /\ call.n >= 1) =>
    LET x == df[call.prices]
        k == result.out[1][call.prices]
    IN  \A p \in call.n..Len(x) :
          (\E a, b \in (p - call.n + 1)..p : x[a] # x[b]) =>
            FLeq(Num(0), k[p]) /\ FLeq(k[p], Num(100))
C6_Witness ==
  /\ Returned("stochastic_oscillator") /\ call.n = 2
  /\ df["Close"] = <<Num(1), Num(3), Num(2)>>
  /\ result.out[1]["Close"][2] = Num(100)
  /\ result.out[1]["Close"][3] = Num(0)

(* --------------------------- Bollinger band runs ----------------------- *)

\* one bar: High >= Close >= Low, prices in 1..BBPrice
Bars == {b \in (1..BBPrice) \X (1..BBPrice) \X (1..BBPrice) : b[1] >= b[3] /\ b[3] >= b[2]}
BarTable(bars) ==
  [col \in {"High", "Low", "Close"} |->
     [p \in 1..Len(bars) |->
        Num(bars[p][IF col = "High" THEN 1 ELSE IF col = "Low" THEN 2 ELSE 3])]]
Multipliers == {-1, 0, 2}

InitBB ==
  /\ df \in {BarTable(bars) : bars \in SeqsUpTo(Bars, BBLen) \ {<<>>}}
  /\ call = NoCall
  /\ result = NotCalled

CallBollinger ==
  /\ result.status = "none"
  /\ \E n \in -1..BBLen, m \in Multipliers :
       /\ call' = [NoCall EXCEPT !.fn = "bollinger_bands", !.n = n, !.m = m]
       /\ result' = bollinger_bands(df, n, Num(m))
  /\ UNCHANGED df

NextBB == CallBollinger

SpecBB == InitBB /\ [][NextBB]_vars

(* ------------------------ claims on Bollinger bands -------------------- *)

\* the n-window simple moving average of (High + Low + Close) / 3 at p
Center(p) ==
  FDiv(RefSum([q \in 1..Len(df["Close"]) |->
                 FAdd(FAdd(df["High"][q], df["Low"][q]), df["Close"][q])],
              p - call.n + 1, p),
       Num(3 * call.n))

BandsOrdered ==
  \A p \in 1..Len(df["Close"]) :
    (~SIsNaN(result.out[1][p]) /\ ~SIsNaN(result.out[2][p])) =>
      /\ p >= call.n /\ call.n >= 1
      /\ SLeq(result.out[1][p], SOfNum(Center(p)))
      /\ SLeq(SOfNum(Center(p)), result.out[2][p])

\* C5 as stated: for every table, window n and multiplier m that
\* bollinger_bands accepts, wherever both returned bands are defined,
\* lower <= center <= upper, with center the n-window SMA of the typical
\* price and the pair returned as (lower, upper).
C5_BandsOrderedForEveryMultiplier ==
  Returned("bollinger_bands") => BandsOrdered

\* C5 amended: the same ordering for every multiplier m >= 0.
C5_BandsOrderedForNonNegativeMultiplier ==
  (Returned("bollinger_bands") /\ call.m >= 0) => BandsOrdered
C5_Witness ==
  /\ Returned("bollinger_bands") /\ call.m = 2 /\ call.n = 2
  /\ Len(df["Close"]) >= 2
  /\ ~SIsNaN(result.out[1][2])
  /\ result.out[1][2] # result.out[2][2]
  /\ SLeq(result.out[1][2], result.out[2][2])

====
